---- MODULE Spec2Model ----
(***************************************************************************)
(* Model of python-api/lambda_function.py: the chunk construction core     *)
(* (line grouping, chunk accumulation, oversize splitting, image chunk     *)
(* building, reading-order merge) and the Lambda request handler.          *)
(*                                                                         *)
(* Conventions                                                             *)
(*  - a Python str is a sequence of one-character strings;                  *)
(*  - coordinates are integers (the code's floats rounded to 2 decimals    *)
(*    are exact multiples of a unit; only order, sums and the fixed        *)
(*    tolerances matter), a half width is avoided by doubling both sides   *)
(*    of the center comparison;                                            *)
(*  - math.inf / -math.inf are the extended numbers <<1,0>> / <<-1,0>>,    *)
(*    a finite v is <<0,v>>;                                               *)
(*  - Optional[float] is <<>> (None) or <<v>>.                             *)
(***************************************************************************)
EXTENDS Integers, Sequences, FiniteSets, TLC

VARIABLES
    \* create_chunks: arguments
    text_items, image_items, max_chars,
    \* create_chunks: locals
    pc, pages_todo, text_chunks, pages_processed, image_chunks, all_chunks,
    \* create_semantic_chunks_for_page: locals
    page_number, lines, line_idx, cur_text_items, x_min, x_max, y_min, y_max,
    prev_line_bottom, chunks, chunk_index, final_chunks, split_idx, parts, buf,
    \* handler: the request, the environment and the response
    request, response,
    \* a second hand-over of the same chunks to merge_chunks_in_reading_order
    handed_text, handed_images, handed_result

pipeline_vars == <<text_items, image_items, max_chars, pc, pages_todo, text_chunks,
                   pages_processed, image_chunks, all_chunks>>
page_vars == <<page_number, lines, line_idx, cur_text_items, x_min, x_max, y_min, y_max,
               prev_line_bottom, chunks, chunk_index, final_chunks, split_idx, parts, buf>>
handler_vars == <<request, response>>
handed_vars == <<handed_text, handed_images, handed_result>>
vars == <<pipeline_vars, page_vars, handler_vars, handed_vars>>

----------------------------------------------------------------------------
(* Bounds of the model *)

MaxWords == 4
MaxDocImages == 1
MaxImages == 4
SmallMaxChars == 8
LongLen == 120

(* Constants of the program *)

line_tolerance == 5
position_tolerance == 15
sentence_floor == 120
DefaultMaxChars == 200
gap_factor == 2

----------------------------------------------------------------------------
(* Numbers *)

Abs(n) == IF n < 0 THEN -n ELSE n
Min2(a, b) == IF a <= b THEN a ELSE b
Max2(a, b) == IF a >= b THEN a ELSE b

RECURSIVE SeqMin(_)
SeqMin(s) == IF Len(s) = 1 THEN s[1] ELSE Min2(s[1], SeqMin(Tail(s)))
RECURSIVE SeqMax(_)
SeqMax(s) == IF Len(s) = 1 THEN s[1] ELSE Max2(s[1], SeqMax(Tail(s)))

PosInf == <<1, 0>>
NegInf == <<-1, 0>>
Fin(v) == <<0, v>>
IsFinite(e) == e[1] = 0
ExtLE(a, b) == a[1] < b[1] \/ (a[1] = b[1] /\ a[2] <= b[2])
ExtMin(a, b) == IF ExtLE(a, b) THEN a ELSE b
ExtMax(a, b) == IF ExtLE(a, b) THEN b ELSE a

None == <<>>
Some(v) == <<v>>

(* Tuples of integers compared as Python compares tuples *)
RECURSIVE LexLT(_, _)
LexLT(a, b) ==
    IF a = <<>> \/ b = <<>> THEN a = <<>> /\ b # <<>>
    ELSE IF a[1] # b[1] THEN a[1] < b[1]
    ELSE LexLT(Tail(a), Tail(b))

(* sorted(...) / list.sort(...): a stable sort of <<key, element>> pairs *)
RECURSIVE InsertByKey(_, _)
InsertByKey(p, s) ==
    IF s = <<>> THEN <<p>>
    ELSE IF LexLT(p[1], s[1][1]) THEN <<p>> \o s
    ELSE <<s[1]>> \o InsertByKey(p, Tail(s))

RECURSIVE SortPairs(_)
SortPairs(ps) ==
    IF ps = <<>> THEN <<>>
    ELSE InsertByKey(ps[Len(ps)], SortPairs(SubSeq(ps, 1, Len(ps) - 1)))

Elements(ps) == [i \in 1..Len(ps) |-> ps[i][2]]

----------------------------------------------------------------------------
(* Strings *)

Space == " "
Rep(c, n) == [i \in 1..n |-> c]

RECURSIVE LStrip(_)
LStrip(s) == IF s # <<>> /\ s[1] = Space THEN LStrip(Tail(s)) ELSE s
RECURSIVE RStrip(_)
RStrip(s) ==
    IF s # <<>> /\ s[Len(s)] = Space THEN RStrip(SubSeq(s, 1, Len(s) - 1)) ELSE s
Strip(s) == RStrip(LStrip(s))

StartsWith(s, p) == Len(s) >= Len(p) /\ SubSeq(s, 1, Len(p)) = p
EndsWith(s, p) == Len(s) >= Len(p) /\ SubSeq(s, Len(s) - Len(p) + 1, Len(s)) = p

(* sep.join(strs) with sep = " " *)
RECURSIVE Join(_)
Join(strs) ==
    IF strs = <<>> THEN <<>>
    ELSE IF Len(strs) = 1 THEN strs[1]
    ELSE strs[1] \o <<Space>> \o Join(Tail(strs))

(* s.replace("\n", " ") *)
ReplaceNewline(s) == [i \in 1..Len(s) |-> IF s[i] = "\n" THEN Space ELSE s[i]]

(* s.split(" "): the pieces between separators; consecutive separators give *)
(* empty strings                                                           *)
RECURSIVE Ascending(_)
Ascending(S) ==
    IF S = {} THEN <<>>
    ELSE LET m == CHOOSE a \in S : \A b \in S : a <= b
         IN <<m>> \o Ascending(S \ {m})

Split(s) ==
    LET seps == Ascending({i \in 1..Len(s) : s[i] = Space})
        from(k) == IF k = 1 THEN 1 ELSE seps[k - 1] + 1
        to(k) == IF k = Len(seps) + 1 THEN Len(s) ELSE seps[k] - 1
    IN [k \in 1..(Len(seps) + 1) |-> SubSeq(s, from(k), to(k))]

Digits == {"0", "1", "2", "3", "4", "5", "6", "7", "8", "9"}
Letters == {"a", "b", "c", "d", "e", "f", "g", "h", "i", "j", "k", "l", "m",
            "z", "A", "a-circumflex"}
IsDigit(c) == c \in Digits
IsAlpha(c) == c \in Letters

EndsSentence(s) == EndsWith(s, <<".">>) \/ EndsWith(s, <<"!">>) \/ EndsWith(s, <<"?">>)

----------------------------------------------------------------------------
(* Data models *)

TextItem(text, x, y, width, height, pageNumber) ==
    [text |-> text, x |-> x, y |-> y, width |-> width, height |-> height,
     pageNumber |-> pageNumber]

ImageItem(x, y, width, height, pageNumber, obj_name) ==
    [x |-> x, y |-> y, width |-> width, height |-> height,
     pageNumber |-> pageNumber, obj_name |-> obj_name]

SemanticChunk(content, page, xmin, xmax, ymin, ymax, index, is_image) ==
    [content |-> content, page_number |-> page, x_min |-> xmin, x_max |-> xmax,
     y_min |-> ymin, y_max |-> ymax, chunk_index |-> index, is_image |-> is_image]

Texts(items) == [i \in 1..Len(items) |-> items[i].text]

(* by_page.setdefault(it.pageNumber, []).append(it): the items of one page, in input order *)
ItemsOfPage(items, p) == SelectSeq(items, LAMBDA it : it.pageNumber = p)

(* sorted(by_page.keys()) *)
PageKeys(items) == Ascending({items[i].pageNumber : i \in 1..Len(items)})

----------------------------------------------------------------------------
(* Chunking logic: lines *)

sort_reading_order(items) ==
    Elements(SortPairs([i \in 1..Len(items) |-> <<<<items[i].y, items[i].x>>, items[i]>>]))

(* mutant: the previous word, not the first word of the line, is the anchor *)
starts_new_line_prev(it, current, current_y) ==
    current_y = None \/ Abs(it.y - current[Len(current)].y) > line_tolerance

(* the test that closes the open line; current_y is the y of its first item *)
starts_new_line(it, current, current_y) ==
    current_y = None \/ Abs(it.y - current_y[1]) > line_tolerance

RECURSIVE group_loop(_, _, _, _)
group_loop(items, lns, current, current_y) ==
    IF items = <<>> THEN (IF current # <<>> THEN Append(lns, current) ELSE lns)
    ELSE LET it == items[1] IN
         IF current = <<>> THEN group_loop(Tail(items), lns, <<it>>, Some(it.y))
         ELSE IF starts_new_line(it, current, current_y)
              THEN group_loop(Tail(items), Append(lns, current), <<it>>, Some(it.y))
              ELSE group_loop(Tail(items), lns, Append(current, it), current_y)

sort_line(line) ==
    Elements(SortPairs([i \in 1..Len(line) |-> <<<<line[i].x>>, line[i]>>]))

group_into_lines(items) ==
    LET lns == group_loop(items, <<>>, <<>>, None)
    IN [i \in 1..Len(lns) |-> sort_line(lns[i])]

----------------------------------------------------------------------------
(* Chunking logic: the classifiers *)

BulletGlyph == <<"a-circumflex", "euro", "cent">>

is_bullet_line(line_text) ==
    LET s == LStrip(line_text)
        label == SubSeq(s, 2, 3) = <<".", Space>> \/ SubSeq(s, 2, 3) = <<")", Space>>
    IN \/ StartsWith(s, BulletGlyph \o <<Space>>)
       \/ StartsWith(s, <<"-", Space>>)
       \/ StartsWith(s, <<"*", Space>>)
       \/ (Len(s) > 2 /\ IsDigit(s[1]) /\ label)
       \/ (Len(s) > 2 /\ IsAlpha(s[1]) /\ label)

line_text_of(line) == Strip(Join(Texts(line)))

paragraph_break(plb, line) ==
    IF plb # None /\ line # <<>>
    THEN LET line_top == SeqMin([i \in 1..Len(line) |-> line[i].y])
             gap == line_top - plb[1]
             line_height == SeqMax([i \in 1..Len(line) |-> line[i].height])
         IN gap > line_height * gap_factor
    ELSE FALSE

exceeds(new_text, limit) == Len(new_text) > limit

(* mutant: the sentence-end trigger is missing *)
ends_sentence_never(current_text) == FALSE

ends_sentence(current_text) ==
    IF current_text # <<>> THEN EndsSentence(current_text) ELSE FALSE

should_split(cur, plb, line, limit) ==
    LET line_text == line_text_of(line)
        current_text == Strip(Join(Texts(cur)))
        new_text == IF current_text # <<>>
                    THEN Strip(current_text \o <<Space>> \o line_text)
                    ELSE line_text
    IN cur # <<>> /\ (\/ is_bullet_line(line_text)
                      \/ paragraph_break(plb, line)
                      \/ exceeds(new_text, limit)
                      \/ ends_sentence(current_text))

----------------------------------------------------------------------------
(* Chunking logic: the accumulator. Its state is the record of the        *)
(* nonlocal variables of flush_chunk.                                     *)

AccState(chs, idx, cur, xmn, xmx, ymn, ymx) ==
    [chunks |-> chs, chunk_index |-> idx, cur_text_items |-> cur,
     x_min |-> xmn, x_max |-> xmx, y_min |-> ymn, y_max |-> ymx]

flush_chunk(st, page) ==
    LET content == Strip(Join(Texts(st.cur_text_items)))
        emitted == content # <<>>
    IN AccState(
         IF emitted
         THEN Append(st.chunks, SemanticChunk(content, page, st.x_min, st.x_max,
                                              st.y_min, st.y_max, st.chunk_index, FALSE))
         ELSE st.chunks,
         IF emitted THEN st.chunk_index + 1 ELSE st.chunk_index,
         <<>>, PosInf, NegInf, PosInf, NegInf)

(* mutant: the bottom of the running box is not updated *)
add_item_no_y_max(st, it) ==
    AccState(st.chunks, st.chunk_index, Append(st.cur_text_items, it),
             ExtMin(st.x_min, Fin(it.x)), ExtMax(st.x_max, Fin(it.x + it.width)),
             ExtMin(st.y_min, Fin(it.y)), st.y_max)

add_item(st, it) ==
    AccState(st.chunks, st.chunk_index, Append(st.cur_text_items, it),
             ExtMin(st.x_min, Fin(it.x)), ExtMax(st.x_max, Fin(it.x + it.width)),
             ExtMin(st.y_min, Fin(it.y)), ExtMax(st.y_max, Fin(it.y + it.height)))

RECURSIVE add_line(_, _)
add_line(st, line) ==
    IF line = <<>> THEN st ELSE add_line(add_item(st, line[1]), Tail(line))

line_bottom(line, plb) ==
    IF line # <<>>
    THEN Some(SeqMax([i \in 1..Len(line) |-> line[i].y + line[i].height]))
    ELSE plb

----------------------------------------------------------------------------
(* Chunking logic: the oversize splitter *)

seals(b) == Len(b) >= sentence_floor /\ EndsSentence(b)

(* the token loop; the result is <<parts, buf>> when the loop ends *)
RECURSIVE token_loop(_, _, _)
token_loop(tokens, ps, b) ==
    IF tokens = <<>> THEN <<ps, b>>
    ELSE IF tokens[1] = <<>> THEN token_loop(Tail(tokens), ps, b)
    ELSE LET nb == Strip(b \o <<Space>> \o tokens[1]) IN
         IF seals(nb) THEN token_loop(Tail(tokens), Append(ps, nb), <<>>)
                      ELSE token_loop(Tail(tokens), ps, nb)

sentence_split(content) == token_loop(Split(ReplaceNewline(content)), <<>>, <<>>)

(* mutant: the buffer left after the token loop is dropped *)
with_leftover_dropped(ps, b) == ps

with_leftover(ps, b) == IF b # <<>> THEN Append(ps, b) ELSE ps

part_chunks(ps, ch) ==
    [i \in 1..Len(ps) |->
        SemanticChunk(Strip(ps[i]), ch.page_number, ch.x_min, ch.x_max,
                      ch.y_min, ch.y_max, 0, FALSE)]

reindex(chs, start) == [i \in 1..Len(chs) |-> [chs[i] EXCEPT !.chunk_index = start + i - 1]]

----------------------------------------------------------------------------
(* Image chunks *)

(* mutant: centers exactly position_tolerance apart count as duplicates *)
is_duplicate_of_inclusive(existing, image) ==
    /\ Abs((2 * existing.x + existing.width) - (2 * image.x + image.width))
         <= 2 * position_tolerance
    /\ Abs((2 * existing.y + existing.height) - (2 * image.y + image.height))
         <= 2 * position_tolerance

is_duplicate_of(existing, image) ==
    /\ Abs((2 * existing.x + existing.width) - (2 * image.x + image.width))
         < 2 * position_tolerance
    /\ Abs((2 * existing.y + existing.height) - (2 * image.y + image.height))
         < 2 * position_tolerance

is_duplicate(image, deduplicated_images) ==
    \E i \in 1..Len(deduplicated_images) : is_duplicate_of(deduplicated_images[i], image)

(* mutant: an image is compared with the image before it in sort order,   *)
(* kept or not, instead of with the kept images                            *)
RECURSIVE dedup_after(_, _, _)
dedup_after(images, deduplicated_images, prev) ==
    IF images = <<>> THEN deduplicated_images
    ELSE IF is_duplicate(images[1], prev)
         THEN dedup_after(Tail(images), deduplicated_images, <<images[1]>>)
         ELSE dedup_after(Tail(images), Append(deduplicated_images, images[1]),
                          <<images[1]>>)
dedup_loop_prev(images, deduplicated_images) ==
    dedup_after(images, deduplicated_images, <<>>)

RECURSIVE dedup_loop(_, _)
dedup_loop(images, deduplicated_images) ==
    IF images = <<>> THEN deduplicated_images
    ELSE IF is_duplicate(images[1], deduplicated_images)
         THEN dedup_loop(Tail(images), deduplicated_images)
         ELSE dedup_loop(Tail(images), Append(deduplicated_images, images[1]))

sort_images(page_images) ==
    Elements(SortPairs([i \in 1..Len(page_images) |->
                          <<<<page_images[i].y, page_images[i].x>>, page_images[i]>>]))

deduplicate(page_images) == dedup_loop(sort_images(page_images), <<>>)

(* the f-string; int() of a coordinate is the coordinate, coordinates being integers here *)
image_content(image) ==
    <<"[Image: ", image.obj_name, " at position (", ToString(image.x), ", ",
      ToString(image.y), ") with dimensions ", ToString(image.width), "x",
      ToString(image.height), "]">>

image_chunk(image) ==
    SemanticChunk(image_content(image), image.pageNumber, Fin(image.x),
                  Fin(image.x + image.width), Fin(image.y), Fin(image.y + image.height),
                  0, TRUE)

RECURSIVE image_pages_loop(_, _)
image_pages_loop(pages, images) ==
    IF pages = <<>> THEN <<>>
    ELSE LET kept == deduplicate(ItemsOfPage(images, pages[1]))
         IN [i \in 1..Len(kept) |-> image_chunk(kept[i])]
            \o image_pages_loop(Tail(pages), images)

create_image_chunks(images) == image_pages_loop(PageKeys(images), images)

----------------------------------------------------------------------------
(* Reading-order merge *)

(* mutants: the page left out of the sort key; the page alone as the key *)
chunk_key_without_page(c) == <<c.y_min[1], c.y_min[2], c.x_min[1], c.x_min[2]>>
chunk_key_page_only(c) == <<c.page_number>>

chunk_key(c) == <<c.page_number, c.y_min[1], c.y_min[2], c.x_min[1], c.x_min[2]>>

sort_chunks(all) ==
    Elements(SortPairs([i \in 1..Len(all) |-> <<chunk_key(all[i]), all[i]>>]))

merge_chunks_in_reading_order(texts, images) ==
    reindex(sort_chunks(texts \o images), 0)

----------------------------------------------------------------------------
(* Inputs: documents are drawn from catalogs of positioned words and images *)

LongWord == Rep("a", LongLen)
LongWordDot == Rep("a", LongLen - 1) \o <<".">>

(* In input order, which is not reading order. *)
WordCatalog == <<
    TextItem(<<"e", "f">>,                               0,   8, 10, 10, 1),
    TextItem(<<"z", "z">>,                             120,  40, 10, 10, 1),
    TextItem(<<"c", "d", ".">>,                         20,   0, 10, 10, 1),
    TextItem(<<"A", "b">>,                               0,   4, 10, 10, 1),
    TextItem(<<"k", "l", "!">>,                          0,   0, 10, 12, 2),
    TextItem(LongWordDot,                               60,  40, 50, 10, 1),
    TextItem(<<"g", "h", "i", "j", "k", "l", "m">>,     10,  14, 30, 10, 1),
    TextItem(<<"i", "j">>,                              20, 100, 10, 10, 1),
    TextItem(LongWord,                                   0,  40, 50, 10, 1),
    TextItem(<<"-">>,                                    0,  14,  5, 10, 1),
    TextItem(<<"b", ")">>,                               0, 105, 10, 10, 1) >>

ImageCatalog == <<
    ImageItem( 20,  12, 20, 20, 1, "Image9_2"),
    ImageItem( 10,  10, 20, 20, 1, "Image7_0"),
    ImageItem(105, 103, 50, 50, 2, "Image5_1"),
    ImageItem(  0,  11, 20, 20, 1, "Image8_1"),
    ImageItem(100, 100, 50, 50, 2, "Image5_0"),
    ImageItem( 10,  10, 20, 20, 1, "Image7_3"),
    ImageItem( 25,  10, 20, 20, 1, "Image6_4"),
    ImageItem( 10,  10, 20, 20, 2, "Image4_0") >>

DocImageCatalog == <<
    ImageItem(100, 100, 50, 50, 2, "Image5_0"),
    ImageItem( 10,  10, 20, 20, 1, "Image7_0"),
    ImageItem(  0,  40, 20, 20, 1, "Image3_0"),
    ImageItem( 10,  10, 60, 60, 1, "Image2_0") >>

RECURSIVE PickIdx(_, _, _)
PickIdx(cat, S, i) ==
    IF i > Len(cat) THEN <<>>
    ELSE (IF i \in S THEN <<cat[i]>> ELSE <<>>) \o PickIdx(cat, S, i + 1)

(* the sub-sequences of a catalog of at most n items *)
SubSeqs(cat, n) ==
    {PickIdx(cat, S, 1) : S \in {T \in SUBSET (1..Len(cat)) : Cardinality(T) <= n}}

MaxCharsChoices == {SmallMaxChars, DefaultMaxChars}

NoRequest == [expected |-> "unset", provided |-> "unset", body |-> "unset",
              document_id |-> FALSE, pdf_url |-> FALSE, max_chars |-> "absent",
              fetch |-> "pending", pdf |-> "pending"]

PageLocalsInit ==
    /\ page_number = 0
    /\ lines = <<>>
    /\ line_idx = 1
    /\ cur_text_items = <<>>
    /\ x_min = PosInf
    /\ x_max = NegInf
    /\ y_min = PosInf
    /\ y_max = NegInf
    /\ prev_line_bottom = None
    /\ chunks = <<>>
    /\ chunk_index = 0
    /\ final_chunks = <<>>
    /\ split_idx = 1
    /\ parts = <<>>
    /\ buf = <<>>

HandedInit ==
    /\ handed_text = <<>>
    /\ handed_images = <<>>
    /\ handed_result = <<>>

(* create_chunks is entered with its arguments bound *)
EnterCreateChunks(words, images, limit) ==
    /\ text_items = words
    /\ image_items = images
    /\ max_chars = limit
    /\ pc = "pages"
    /\ pages_todo = PageKeys(words)
    /\ text_chunks = <<>>
    /\ pages_processed = 0
    /\ image_chunks = <<>>
    /\ all_chunks = <<>>
    /\ PageLocalsInit

Init ==
    /\ \E words \in SubSeqs(WordCatalog, MaxWords),
          images \in SubSeqs(DocImageCatalog, MaxDocImages),
          limit \in MaxCharsChoices :
            EnterCreateChunks(words, images, limit)
    /\ request = NoRequest
    /\ response = None
    /\ HandedInit

----------------------------------------------------------------------------
(* create_semantic_chunks_for_page, one step per action *)

Acc == AccState(chunks, chunk_index, cur_text_items, x_min, x_max, y_min, y_max)

SetAcc(st) ==
    /\ chunks' = st.chunks
    /\ chunk_index' = st.chunk_index
    /\ cur_text_items' = st.cur_text_items
    /\ x_min' = st.x_min
    /\ x_max' = st.x_max
    /\ y_min' = st.y_min
    /\ y_max' = st.y_max

(* the call for the next page: sort, group into lines, fresh locals *)
StartPage ==
    /\ pc = "pages"
    /\ pages_todo # <<>>
    /\ page_number' = pages_todo[1]
    /\ lines' = group_into_lines(sort_reading_order(ItemsOfPage(text_items, pages_todo[1])))
    /\ line_idx' = 1
    /\ SetAcc(AccState(<<>>, 0, <<>>, PosInf, NegInf, PosInf, NegInf))
    /\ prev_line_bottom' = None
    /\ final_chunks' = <<>>
    /\ split_idx' = 1
    /\ pc' = "lines"
    /\ UNCHANGED <<text_items, image_items, max_chars, pages_todo, text_chunks,
                   pages_processed, image_chunks, all_chunks, parts, buf>>
    /\ UNCHANGED <<handler_vars, handed_vars>>

(* one iteration of "for line in lines" *)
ProcessLine ==
    /\ pc = "lines"
    /\ line_idx <= Len(lines)
    /\ LET line == lines[line_idx]
           st1 == IF should_split(cur_text_items, prev_line_bottom, line, max_chars)
                  THEN flush_chunk(Acc, page_number)
                  ELSE Acc
       IN /\ SetAcc(add_line(st1, line))
          /\ prev_line_bottom' = line_bottom(line, prev_line_bottom)
    /\ line_idx' = line_idx + 1
    /\ UNCHANGED <<pipeline_vars, page_number, lines, final_chunks, split_idx, parts, buf>>
    /\ UNCHANGED <<handler_vars, handed_vars>>

(* "if cur_text_items: flush_chunk()" after the loop *)
FinalFlush ==
    /\ pc = "lines"
    /\ line_idx > Len(lines)
    /\ SetAcc(IF cur_text_items # <<>> THEN flush_chunk(Acc, page_number) ELSE Acc)
    /\ final_chunks' = <<>>
    /\ split_idx' = 1
    /\ pc' = "split"
    /\ UNCHANGED <<text_items, image_items, max_chars, pages_todo, text_chunks,
                   pages_processed, image_chunks, all_chunks>>
    /\ UNCHANGED <<page_number, lines, line_idx, prev_line_bottom, parts, buf>>
    /\ UNCHANGED <<handler_vars, handed_vars>>

(* one iteration of "for ch in chunks" of the post-processing *)
SplitChunk ==
    /\ pc = "split"
    /\ split_idx <= Len(chunks)
    /\ LET ch == chunks[split_idx] IN
       IF Len(ch.content) <= max_chars
       THEN /\ final_chunks' = Append(final_chunks, ch)
            /\ UNCHANGED <<parts, buf>>
       ELSE LET r == sentence_split(ch.content)
                ps == with_leftover(r[1], r[2])
            IN /\ parts' = ps
               /\ buf' = r[2]
               /\ final_chunks' = final_chunks \o part_chunks(ps, ch)
    /\ split_idx' = split_idx + 1
    /\ UNCHANGED <<pipeline_vars, page_number, lines, line_idx, cur_text_items, x_min, x_max,
                   y_min, y_max, prev_line_bottom, chunks, chunk_index>>
    /\ UNCHANGED <<handler_vars, handed_vars>>

(* re-index per page, return; create_chunks extends text_chunks *)
ReturnPage ==
    /\ pc = "split"
    /\ split_idx > Len(chunks)
    /\ final_chunks' = reindex(final_chunks, 0)
    /\ text_chunks' = text_chunks \o reindex(final_chunks, 0)
    /\ pages_processed' = pages_processed + 1
    /\ pages_todo' = Tail(pages_todo)
    /\ pc' = "pages"
    /\ UNCHANGED <<text_items, image_items, max_chars, image_chunks, all_chunks>>
    /\ UNCHANGED <<page_number, lines, line_idx, cur_text_items, x_min, x_max, y_min, y_max,
                   prev_line_bottom, chunks, chunk_index, split_idx, parts, buf>>
    /\ UNCHANGED <<handler_vars, handed_vars>>

----------------------------------------------------------------------------
(* create_chunks: images and merge *)

CreateImageChunks ==
    /\ pc = "pages"
    /\ pages_todo = <<>>
    /\ image_chunks' = create_image_chunks(image_items)
    /\ pc' = "merge"
    /\ UNCHANGED <<text_items, image_items, max_chars, pages_todo, text_chunks,
                   pages_processed, all_chunks>>
    /\ UNCHANGED <<page_vars, handler_vars, handed_vars>>

(* text_chunks and image_chunks are dead after this call; the chunk_index   *)
(* written through the shared objects is read from all_chunks only         *)
Merge ==
    /\ pc = "merge"
    /\ all_chunks' = merge_chunks_in_reading_order(text_chunks, image_chunks)
    /\ pc' = "done"
    /\ UNCHANGED <<text_items, image_items, max_chars, pages_todo, text_chunks,
                   pages_processed, image_chunks>>
    /\ UNCHANGED <<page_vars, handler_vars, handed_vars>>

Next ==
    \/ StartPage
    \/ ProcessLine
    \/ FinalFlush
    \/ SplitChunk
    \/ ReturnPage
    \/ CreateImageChunks
    \/ Merge

Spec == Init /\ [][Next]_vars

----------------------------------------------------------------------------
(* The image chunk builder on its own: create_chunks on documents of      *)
(* images only, drawn from the larger catalog                             *)

InitImages ==
    /\ \E images \in SubSeqs(ImageCatalog, MaxImages) :
            EnterCreateChunks(<<>>, images, DefaultMaxChars)
    /\ request = NoRequest
    /\ response = None
    /\ HandedInit

NextImages ==
    \/ CreateImageChunks
    \/ Merge

SpecImages == InitImages /\ [][NextImages]_vars

----------------------------------------------------------------------------
(* A second hand-over: the chunks of the finished run are given to         *)
(* merge_chunks_in_reading_order again, in another order                   *)

Perms(n) == {f \in [1..n -> 1..n] : \A i, j \in 1..n : f[i] = f[j] => i = j}
Permuted(s, f) == [i \in 1..Len(s) |-> s[f[i]]]

HandOver ==
    /\ pc = "done"
    /\ \E f \in Perms(Len(text_chunks)), g \in Perms(Len(image_chunks)) :
         /\ handed_text' = Permuted(text_chunks, f)
         /\ handed_images' = Permuted(image_chunks, g)
         /\ handed_result' = merge_chunks_in_reading_order(Permuted(text_chunks, f),
                                                           Permuted(image_chunks, g))
    /\ pc' = "handed"
    /\ UNCHANGED <<text_items, image_items, max_chars, pages_todo, text_chunks,
                   pages_processed, image_chunks, all_chunks>>
    /\ UNCHANGED <<page_vars, handler_vars>>

NextMerge ==
    \/ Next
    \/ HandOver

SpecMerge == Init /\ [][NextMerge]_vars

----------------------------------------------------------------------------
(* Lambda handler. request holds the event, LAMBDA_SHARED_SECRET and what  *)
(* the environment answers (the fetch, the PDF behind the URL).            *)

Secrets == {"unset", "", "s3cret"}
Provided == {"unset", "s3cret", "wrong"}
Bodies == {"absent", "object", "malformed", "array"}
MaxCharsFields == {"absent", "small", "word"}
FetchOutcomes == {"ok", "http_error", "timeout", "connection_error"}

(* what the PDF behind the URL holds: <<words, images>>, or "corrupt" *)
SamplePdfs == [
    blank |-> <<<<>>, <<>>>>,
    text |-> <<<<WordCatalog[1], WordCatalog[3], WordCatalog[4]>>, <<>>>>,
    figure |-> <<<<>>, <<DocImageCatalog[2]>>>>,
    mixed |-> <<<<WordCatalog[9], WordCatalog[6], WordCatalog[5]>>, <<DocImageCatalog[3]>>>> ]
PdfOutcomes == DOMAIN SamplePdfs \cup {"corrupt"}

Requests ==
    [expected : Secrets, provided : Provided, body : Bodies,
     document_id : BOOLEAN, pdf_url : BOOLEAN, max_chars : MaxCharsFields,
     fetch : {"pending"}, pdf : {"pending"}]

json_response(status_code, error) == Some([statusCode |-> status_code, error |-> error])

InitHandler ==
    /\ request \in Requests
    /\ response = None
    /\ pc = "auth"
    /\ text_items = <<>>
    /\ image_items = <<>>
    /\ max_chars = DefaultMaxChars
    /\ pages_todo = <<>>
    /\ text_chunks = <<>>
    /\ pages_processed = 0
    /\ image_chunks = <<>>
    /\ all_chunks = <<>>
    /\ PageLocalsInit
    /\ HandedInit

Return(r) ==
    /\ response' = r
    /\ pc' = "returned"

Goto(l) ==
    /\ pc' = l
    /\ UNCHANGED response

core_vars == <<text_items, image_items, max_chars, pages_todo, text_chunks,
               pages_processed, image_chunks, all_chunks>>

(* "if expected and provided != expected": an unset or empty secret is falsy *)
secret_rejected(expected, provided) ==
    expected \notin {"unset", ""} /\ provided # expected

CheckSecret ==
    /\ pc = "auth"
    /\ IF secret_rejected(request.expected, request.provided)
       THEN Return(json_response(401, "Unauthorized"))
       ELSE Goto("parse")
    /\ UNCHANGED <<request, core_vars, page_vars, handed_vars>>

(* json.loads(raw_body) and the payload.get calls *)
ParseBody ==
    /\ pc = "parse"
    /\ IF request.body \in {"malformed", "array"}
       THEN Return(json_response(500, "exception"))
       ELSE Goto("validate")
    /\ UNCHANGED <<request, core_vars, page_vars, handed_vars>>

has_field(req, present) == req.body = "object" /\ present

CheckFields ==
    /\ pc = "validate"
    /\ IF ~has_field(request, request.document_id)
       THEN Return(json_response(400, "document_id is required"))
       ELSE IF ~has_field(request, request.pdf_url)
       THEN Return(json_response(400, "pdf_url is required"))
       ELSE Goto("download")
    /\ UNCHANGED <<request, core_vars, page_vars, handed_vars>>

(* the except clause that catches what download_pdf_bytes raises:          *)
(* raise_for_status raises requests.HTTPError; requests.get raises         *)
(* Timeout or ConnectionError, which are not HTTPError                     *)
download_failure_response(outcome) ==
    IF outcome = "http_error"
    THEN json_response(502, "PDF download failed")
    ELSE json_response(500, "exception")

Download ==
    /\ pc = "download"
    /\ \E outcome \in FetchOutcomes :
         /\ request' = [request EXCEPT !.fetch = outcome]
         /\ IF outcome = "ok" THEN Goto("extract")
            ELSE Return(download_failure_response(outcome))
    /\ UNCHANGED <<core_vars, page_vars, handed_vars>>

Extract ==
    /\ pc = "extract"
    /\ \E outcome \in PdfOutcomes :
         /\ request' = [request EXCEPT !.pdf = outcome]
         /\ IF outcome = "corrupt"
            THEN /\ Return(json_response(500, "exception"))
                 /\ UNCHANGED <<text_items, image_items>>
            ELSE /\ text_items' = SamplePdfs[outcome][1]
                 /\ image_items' = SamplePdfs[outcome][2]
                 /\ Goto("check_empty")
    /\ UNCHANGED <<max_chars, pages_todo, text_chunks, pages_processed, image_chunks,
                   all_chunks, page_vars, handed_vars>>

CheckEmpty ==
    /\ pc = "check_empty"
    /\ IF text_items = <<>> /\ image_items = <<>>
       THEN Return(json_response(422, "No text or images extracted from PDF"))
       ELSE Goto("chunk")
    /\ UNCHANGED <<request, core_vars, page_vars, handed_vars>>

(* create_chunks(text_items, image_items, max_chars=int(max_chars)) *)
CallCreateChunks ==
    /\ pc = "chunk"
    /\ IF request.max_chars = "word"
       THEN /\ Return(json_response(500, "exception"))
            /\ UNCHANGED <<max_chars, pages_todo>>
       ELSE /\ max_chars' = (IF request.max_chars = "small" THEN SmallMaxChars
                             ELSE DefaultMaxChars)
            /\ pages_todo' = PageKeys(text_items)
            /\ Goto("pages")
    /\ UNCHANGED <<request, text_items, image_items, text_chunks, pages_processed,
                   image_chunks, all_chunks, page_vars, handed_vars>>

Respond ==
    /\ pc = "done"
    /\ response' = Some([statusCode |-> 200, error |-> "none",
                         pages_processed |-> pages_processed,
                         text_items_extracted |-> Len(text_items),
                         image_items_extracted |-> Len(image_items),
                         chunks_created |-> Len(all_chunks),
                         chunks |-> all_chunks])
    /\ pc' = "returned"
    /\ UNCHANGED <<request, core_vars, page_vars, handed_vars>>

NextHandler ==
    \/ CheckSecret
    \/ ParseBody
    \/ CheckFields
    \/ Download
    \/ Extract
    \/ CheckEmpty
    \/ CallCreateChunks
    \/ Next
    \/ Respond

SpecHandler == InitHandler /\ [][NextHandler]_vars

----------------------------------------------------------------------------
(* Properties *)

Range(s) == {s[i] : i \in 1..Len(s)}
ExtLT(a, b) == ExtLE(a, b) /\ a # b
RECURSIVE Flatten(_)
Flatten(ss) == IF ss = <<>> THEN <<>> ELSE ss[1] \o Flatten(Tail(ss))
Count(s, e) == Cardinality({i \in 1..Len(s) : s[i] = e})
TextChunksOf(chs, p) == SelectSeq(chs, LAMBDA c : ~c.is_image /\ c.page_number = p)

(* C1: when create_chunks returns, chunk_index is the position 0..N-1 and,  *)
(* for positions i < j, the chunks are in (page, y_min, x_min) order: a     *)
(* smaller page, or the same page and a smaller y_min, or the same page and *)
(* y_min and an x_min not larger; nothing is lost or added by the merge.    *)
C1_ReadingOrder ==
    pc = "done" =>
        /\ Len(all_chunks) = Len(text_chunks) + Len(image_chunks)
        /\ \A i \in 1..Len(all_chunks) : all_chunks[i].chunk_index = i - 1
        /\ \A i, j \in 1..Len(all_chunks) :
             i < j =>
               LET a == all_chunks[i]
                   b == all_chunks[j]
               IN \/ a.page_number < b.page_number
                  \/ a.page_number = b.page_number /\ ExtLT(a.y_min, b.y_min)
                  \/ /\ a.page_number = b.page_number
                     /\ a.y_min = b.y_min
                     /\ ExtLE(a.x_min, b.x_min)

(* C1 witness: an image chunk precedes a text chunk of its page that lies  *)
(* lower, and follows another chunk, so its provisional index 0 was        *)
(* overwritten.                                                            *)
C1_Witness ==
    /\ pc = "done"
    /\ \E i, j \in 1..Len(all_chunks) :
         /\ 1 < i
         /\ i < j
         /\ all_chunks[i].is_image
         /\ ~all_chunks[j].is_image
         /\ all_chunks[i].page_number = all_chunks[j].page_number
         /\ ExtLT(all_chunks[i].y_min, all_chunks[j].y_min)
         /\ all_chunks[i].chunk_index = i - 1

(* C2: every text chunk the post-processing emits, other than the leftover *)
(* buffer appended after the token loop, is at most max_chars long: the    *)
(* chunks passed through and every part sealed at >= 120 characters and a  *)
(* sentence end.                                                           *)
C2_LengthBudget ==
    (pc = "split" /\ split_idx > 1) =>
        LET ch == chunks[split_idx - 1]
            n == Len(final_chunks)
        IN IF Len(ch.content) <= max_chars
           THEN Len(final_chunks[n].content) <= max_chars
           ELSE \A k \in 1..Len(parts) :
                  (k = Len(parts) /\ buf # <<>>)
                  \/ Len(final_chunks[n - Len(parts) + k].content) <= max_chars

(* C3: when create_chunks returns, for every page the words of the page's  *)
(* text chunks, in output order, are the page's word stream: the lines of  *)
(* the line grouper top to bottom, each from left to right.                *)
Tokens(content) == SelectSeq(Split(content), LAMBDA t : t # <<>>)
RECURSIVE TokensOfChunks(_)
TokensOfChunks(chs) ==
    IF chs = <<>> THEN <<>> ELSE Tokens(chs[1].content) \o TokensOfChunks(Tail(chs))
WordStream(p) ==
    Texts(Flatten(group_into_lines(sort_reading_order(ItemsOfPage(text_items, p)))))

C3_NoDataLoss ==
    pc = "done" =>
        /\ \A p \in Range(PageKeys(text_items)) :
             TokensOfChunks(TextChunksOf(all_chunks, p)) = WordStream(p)
        /\ \A i \in 1..Len(all_chunks) :
             ~all_chunks[i].is_image =>
                all_chunks[i].page_number \in Range(PageKeys(text_items))

(* C3 witness: a page whose text went through a flush of the accumulator   *)
(* and through the splitter, which gave two parts with the same box, and   *)
(* through the final sort.                                                 *)
C3_Witness ==
    /\ pc = "done"
    /\ \E i, j, k \in 1..Len(all_chunks) :
         /\ i < j
         /\ k # i
         /\ k # j
         /\ ~all_chunks[i].is_image
         /\ ~all_chunks[j].is_image
         /\ ~all_chunks[k].is_image
         /\ all_chunks[i].page_number = all_chunks[j].page_number
         /\ all_chunks[i].page_number = all_chunks[k].page_number
         /\ all_chunks[i].y_min = all_chunks[j].y_min
         /\ all_chunks[i].x_min = all_chunks[j].x_min

(* C4: every emitted chunk, wherever it is held, has a finite box with     *)
(* x_min <= x_max and y_min <= y_max.                                      *)
ValidBox(c) ==
    /\ IsFinite(c.x_min)
    /\ IsFinite(c.x_max)
    /\ IsFinite(c.y_min)
    /\ IsFinite(c.y_max)
    /\ c.x_min[2] <= c.x_max[2]
    /\ c.y_min[2] <= c.y_max[2]

C4_BoxValid ==
    \A c \in Range(chunks) \cup Range(final_chunks) \cup Range(text_chunks)
             \cup Range(image_chunks) \cup Range(all_chunks) :
        ValidBox(c)

(* C4 witness: the run is over, the running box was reset to +inf/-inf by  *)
(* the last flush, and text chunks, split parts and an image chunk were    *)
(* emitted.                                                                *)
C4_Witness ==
    /\ pc = "done"
    /\ x_min = PosInf
    /\ y_max = NegInf
    /\ Len(chunks) >= 2
    /\ Len(final_chunks) > Len(chunks)
    /\ \E i \in 1..Len(all_chunks) : all_chunks[i].is_image

(* C5 as claimed: whatever the order in which the text chunks and the      *)
(* image chunks of a run are handed to the merge, the sequence returned is *)
(* the one the run returned.                                               *)
C5_AnyOrder ==
    pc = "handed" => handed_result = all_chunks

(* C5 as amended: the sequence returned is the same whenever the chunks    *)
(* with equal (page, y_min, x_min) are handed over in the relative order   *)
(* the run had them in (text chunks before image chunks).                  *)
SameCoordinates(a, b) ==
    /\ a.page_number = b.page_number
    /\ a.y_min = b.y_min
    /\ a.x_min = b.x_min
Position(c, s) == CHOOSE i \in 1..Len(s) : s[i] = c
TiesKept(handed, original) ==
    \A i, j \in 1..Len(handed) :
        (i < j /\ SameCoordinates(handed[i], handed[j]))
            => Position(handed[i], original) < Position(handed[j], original)

C5_TiesKeptSameResult ==
    (pc = "handed" /\ TiesKept(handed_text \o handed_images, text_chunks \o image_chunks))
        => handed_result = all_chunks

(* C5 witness: the hand-over is in another order, two chunks have equal    *)
(* coordinates and keep their relative order, and the result is the same.  *)
C5_Witness ==
    /\ pc = "handed"
    /\ handed_text \o handed_images # text_chunks \o image_chunks
    /\ TiesKept(handed_text \o handed_images, text_chunks \o image_chunks)
    /\ \E i, j \in 1..Len(all_chunks) :
         i < j /\ SameCoordinates(all_chunks[i], all_chunks[j])
    /\ handed_result = all_chunks

(* Images and the chunks emitted for them *)
ChunkOf(img, c) ==
    /\ c.is_image
    /\ c.content = image_content(img)
    /\ c.page_number = img.pageNumber
    /\ c.x_min = Fin(img.x)
    /\ c.x_max = Fin(img.x + img.width)
    /\ c.y_min = Fin(img.y)
    /\ c.y_max = Fin(img.y + img.height)
Emitted(img) == \E k \in 1..Len(image_chunks) : ChunkOf(img, image_chunks[k])
(* centers closer than 15.0 in both axes, on the doubled coordinates *)
Near(a, b) ==
    /\ Abs((2 * a.x + a.width) - (2 * b.x + b.width)) < 30
    /\ Abs((2 * a.y + a.height) - (2 * b.y + b.height)) < 30
NotAfter(a, b) == a.y < b.y \/ (a.y = b.y /\ a.x <= b.x)
ImagesBuilt == pc \in {"merge", "done"}

(* C6: the builder emits as many chunks for a set of images as it emits    *)
(* for the images that survived its deduplication.                         *)
Survivors == SelectSeq(image_items, Emitted)

C6_DedupIdempotent ==
    ImagesBuilt =>
        /\ Len(create_image_chunks(Survivors)) = Len(image_chunks)
        /\ Len(Survivors) = Len(image_chunks)

(* C6 witness: two images at identical coordinates were given and the      *)
(* builder discarded one.                                                  *)
C6_Witness ==
    /\ ImagesBuilt
    /\ Len(image_chunks) < Len(image_items)
    /\ Len(image_chunks) >= 2
    /\ \E i, j \in 1..Len(image_items) :
         /\ i < j
         /\ image_items[i].x = image_items[j].x
         /\ image_items[i].y = image_items[j].y
         /\ image_items[i].pageNumber = image_items[j].pageNumber

(* C7: when the handler has returned, a wrong shared secret has given 401  *)
(* before the body was parsed or anything fetched, a missing document_id   *)
(* or pdf_url 400 before any fetch, every failure of the fetch 502, an     *)
(* extraction of nothing 422, and none of the four statuses is given for   *)
(* anything else.                                                          *)
WrongSecret == request.expected \notin {"unset", ""} /\ request.provided # request.expected
BodyParsed == request.body \in {"absent", "object"}
MissingField ==
    request.body = "absent" \/ ~request.document_id \/ ~request.pdf_url
FetchFailed == request.fetch \notin {"pending", "ok"}
NothingExtracted == request.pdf = "blank"
Status == response[1].statusCode

C7_DistinctCategories ==
    pc = "returned" =>
        /\ WrongSecret <=> Status = 401
        /\ (~WrongSecret /\ BodyParsed /\ MissingField) <=> Status = 400
        /\ FetchFailed <=> Status = 502
        /\ NothingExtracted <=> Status = 422
        /\ Status \in {401, 400} => request.fetch = "pending"
        /\ (WrongSecret \/ FetchFailed \/ NothingExtracted
              \/ (~WrongSecret /\ BodyParsed /\ MissingField))
             => Status \notin {200, 500}

(* C8: while the lines of a page are processed, the chunks flushed so far  *)
(* and the accumulator are the lines cut exactly before each line, other   *)
(* than the first, for which a trigger holds: the line is a bullet line,   *)
(* the gap from the previous line's bottom to its top exceeds twice its    *)
(* largest word height, the accumulated text with the line is longer than  *)
(* max_chars, or the accumulated text ends with . ! or ?. So only the last *)
(* line of a flushed chunk can end with . ! or ?.                          *)
WordsOfLines(idxs) == Flatten([k \in 1..Len(idxs) |-> Texts(lines[idxs[k]])])
LineTop(line) == SeqMin([i \in 1..Len(line) |-> line[i].y])
LineBottom(line) == SeqMax([i \in 1..Len(line) |-> line[i].y + line[i].height])
LineHeight(line) == SeqMax([i \in 1..Len(line) |-> line[i].height])
Trigger(open, k) ==
    LET accumulated == Join(WordsOfLines(open))
        last == accumulated[Len(accumulated)]
    IN \/ is_bullet_line(Join(Texts(lines[k])))
       \/ LineTop(lines[k]) - LineBottom(lines[k - 1]) > 2 * LineHeight(lines[k])
       \/ Len(accumulated) + 1 + Len(Join(Texts(lines[k]))) > max_chars
       \/ last \in {".", "!", "?"}
RECURSIVE Segments(_)
Segments(k) ==
    IF k = 0 THEN <<>>
    ELSE IF k = 1 THEN << <<1>> >>
    ELSE LET S == Segments(k - 1)
             n == Len(S)
         IN IF Trigger(S[n], k) THEN Append(S, <<k>>)
            ELSE [S EXCEPT ![n] = Append(@, k)]

PageWords == ItemsOfPage(text_items, page_number)

C9_AnchorRule ==
    page_number # 0 =>
        /\ \A i \in 1..Len(lines) :
             /\ lines[i] # <<>>
             /\ \A k \in 1..Len(lines[i]) : lines[i][k].y - LineTop(lines[i]) <= 5
             /\ \A k \in 1..(Len(lines[i]) - 1) : lines[i][k].x <= lines[i][k + 1].x
        /\ \A i \in 1..(Len(lines) - 1) : LineTop(lines[i + 1]) - LineTop(lines[i]) > 5
        /\ Len(Flatten(lines)) = Len(PageWords)
        /\ \A w \in Range(PageWords) : Count(Flatten(lines), w) = Count(PageWords, w)

(* C9 witness: the first line holds two words, put in x order against     *)
(* their y order, and the second line opens with a word within 5.0 of the  *)
(* last word of the first line but not of its anchor.                      *)
C9_Witness ==
    /\ page_number # 0
    /\ Len(lines) >= 2
    /\ Len(lines[1]) = 2
    /\ lines[1][1].y > lines[1][2].y
    /\ lines[2][1].y - lines[1][1].y <= 5
    /\ lines[2][1].y - LineTop(lines[1]) > 5

(* C10: of the images given, per page: no two emitted chunks have centers  *)
(* closer than 15.0 in both axes; an image is emitted unless an emitted    *)
(* image of its page, not after it in (y, x) order, is that close to it;   *)
(* the first image of a page is emitted; a chunk is emitted for each kept  *)
(* image and for nothing else.                                             *)
C10_DedupRule ==
    ImagesBuilt =>
        /\ \A a, b \in Range(Survivors) :
             (a # b /\ a.pageNumber = b.pageNumber) => ~Near(a, b)
        /\ \A d \in Range(image_items) :
             ~Emitted(d) =>
                \E e \in Range(Survivors) :
                    /\ e.pageNumber = d.pageNumber
                    /\ Near(e, d)
                    /\ NotAfter(e, d)
        /\ \A d \in Range(image_items) :
             (\A o \in Range(image_items) :
                 (o # d /\ o.pageNumber = d.pageNumber) => ~Near(o, d))
                => Emitted(d)
        /\ Len(image_chunks) = Len(Survivors)
        /\ \A k \in 1..Len(image_chunks) :
             \E d \in Range(image_items) : ChunkOf(d, image_chunks[k])

(* C10 witness (scenario D): 50x50 images at (100,100) and (105,103) of    *)
(* page 2 give one chunk, for the first of them; an image of page 1 is     *)
(* emitted beside it.                                                      *)
C10_Witness ==
    /\ pc = "done"
    /\ \E a, b \in Range(image_items) :
         /\ a.pageNumber = 2 /\ a.x = 100 /\ a.y = 100 /\ a.width = 50 /\ a.height = 50
         /\ b.pageNumber = 2 /\ b.x = 105 /\ b.y = 103 /\ b.width = 50 /\ b.height = 50
         /\ Emitted(a)
         /\ ~Emitted(b)
    /\ Cardinality({k \in 1..Len(image_chunks) : image_chunks[k].page_number = 2}) = 1
    /\ \E c \in Range(image_items) : c.pageNumber = 1 /\ Emitted(c)

====
